---- MODULE Spec2Model ----
(***************************************************************************)
(* The space engine of lib/Sema/TypeCheckSwitchStmt.cpp: the algebra of    *)
(* spaces (isSubspace, intersect, minus, simplify, decompose), the         *)
(* projection of patterns into spaces and the exhaustiveness driver.       *)
(***************************************************************************)
EXTENDS Integers, Sequences, FiniteSets, TLC

VARIABLES
  op,        \* the operation that has run ("none" before any has)
  ty,        \* the type the receiver is typed over / the subject type
  tyOther,   \* the type the second operand is typed over
  a,         \* first operand (the receiver, *this)
  b,         \* second operand (other)
  res,       \* the Space an operation returned
  flag,      \* the answer of isSubspace: "T", "F", or "U" (llvm_unreachable)
  cases,     \* the case label items of the switch, in source order
  limited,   \* the limitedChecking argument
  inEditor,  \* LangOpts.DiagnosticsEditorMode
  diag,      \* what diagnoseMissingCases was asked to report
  flatSpaces \* the spaces flatten appended to its output array

vars == <<op, ty, tyOther, a, b, res, flag, cases, limited, inEditor, diag, flatSpaces>>

(***************************************************************************)
(* The type oracle: a closed universe of types.                            *)
(***************************************************************************)
\* Bool; Int (opaque nominal); E {a,b,c}; OptBool {none, some(Bool)};
\* BB = (Bool, Bool); P {p(Bool, Bool), q}; OptBB {none, some((Bool, Bool))};
\* Never {}; W {w(Never)}; Unit = (); BN = (Bool, Never);
\* List {nil, cons(Int, List)} with payload tuple IL = (Int, List);
\* OO = (OptBool, OptBool);
\* M {m} and H {h, x}, where m and x are cases missing type information.
TupleTypes == {"BB", "Unit", "BN", "IL", "OO"}

EnumTypes == {"E", "OptBool", "P", "OptBB", "Never", "W", "List", "M", "H"}

AllTypes == {"Bool", "Int"} \cup TupleTypes \cup EnumTypes

\* TupleType::getElements
getElements(tp) ==
  CASE tp = "BB" -> <<"Bool", "Bool">>
    [] tp = "Unit" -> <<>>
    [] tp = "BN" -> <<"Bool", "Never">>
    [] tp = "IL" -> <<"Int", "List">>
    [] tp = "OO" -> <<"OptBool", "OptBool">>
    [] OTHER -> <<>>

\* EnumDecl::getAllElements: name and argument type ("" when there is none)
getAllElements(tp) ==
  CASE tp = "E" -> << [name |-> "a", arg |-> ""], [name |-> "b", arg |-> ""],
                      [name |-> "c", arg |-> ""] >>
    [] tp = "OptBool" -> << [name |-> "none", arg |-> ""],
                            [name |-> "some", arg |-> "Bool"] >>
    [] tp = "P" -> << [name |-> "p", arg |-> "BB"], [name |-> "q", arg |-> ""] >>
    [] tp = "OptBB" -> << [name |-> "none", arg |-> ""],
                          [name |-> "some", arg |-> "BB"] >>
    [] tp = "Never" -> <<>>
    [] tp = "W" -> << [name |-> "w", arg |-> "Never"] >>
    [] tp = "List" -> << [name |-> "nil", arg |-> ""],
                         [name |-> "cons", arg |-> "IL"] >>
    [] tp = "M" -> << [name |-> "m", arg |-> ""] >>
    [] tp = "H" -> << [name |-> "h", arg |-> ""], [name |-> "x", arg |-> ""] >>
    [] OTHER -> <<>>

\* EnumElementDecl::hasInterfaceType: false for a case missing type information
hasInterfaceType(tp, name) == ~(tp = "M" \/ (tp = "H" /\ name = "x"))

isBool(tp) == tp = "Bool"

isTuple(tp) == tp \in TupleTypes

isEnum(tp) == tp \in EnumTypes

(***************************************************************************)
(* Space: Kind, TypeAndVal (type and bool value), Head, Spaces.            *)
(***************************************************************************)
EmptySpace == [k |-> "Empty", ty |-> "", val |-> FALSE, head |-> "", sp |-> <<>>]

TypeSpace(T) == [k |-> "Type", ty |-> T, val |-> FALSE, head |-> "", sp |-> <<>>]

ConstructorSpace(T, H, SP) ==
  [k |-> "Constructor", ty |-> T, val |-> FALSE, head |-> H, sp |-> SP]

DisjunctSpace(SP) ==
  [k |-> "Disjunct", ty |-> "", val |-> FALSE, head |-> "", sp |-> SP]

BoolSpace(C) ==
  [k |-> "BooleanConstant", ty |-> "", val |-> C, head |-> "", sp |-> <<>>]

\* the result an operation has when it runs into llvm_unreachable
Unreachable ==
  [k |-> "Unreachable", ty |-> "", val |-> FALSE, head |-> "", sp |-> <<>>]

isEmpty(s) == s.k = "Empty"

canDecompose(tp) == isTuple(tp) \/ isBool(tp) \/ isEnum(tp)

\* the payload spaces with the space of every enum type already replaced
\* by the constructor spaces of its elements
constElemSpacesExpanded(arg) ==
  LET expand(T) ==
        IF isEnum(T)
          THEN DisjunctSpace(
                 [j \in 1..Len(getAllElements(T)) |->
                    LET e == getAllElements(T)[j]
                    IN ConstructorSpace(T, e.name,
                         IF e.arg = "" THEN <<>>
                         ELSE IF isTuple(e.arg)
                           THEN [i \in 1..Len(getElements(e.arg)) |->
                                   TypeSpace(getElements(e.arg)[i])]
                           ELSE <<TypeSpace(e.arg)>>)])
          ELSE TypeSpace(T)
  IN IF arg = "" THEN <<>>
     ELSE IF isTuple(arg)
       THEN [i \in 1..Len(getElements(arg)) |-> expand(getElements(arg)[i])]
       ELSE <<expand(arg)>>

\* the payload spaces of one enum element: a tuple payload is spread, a
\* single (parenthesized) payload is one space, no payload is none
constElemSpaces(arg) ==
  IF arg = "" THEN <<>>
  ELSE IF isTuple(arg)
    THEN [i \in 1..Len(getElements(arg)) |-> TypeSpace(getElements(arg)[i])]
    ELSE <<TypeSpace(arg)>>

decompose(tp) ==
  IF isBool(tp) THEN <<BoolSpace(TRUE), BoolSpace(FALSE)>>
  ELSE IF isEnum(tp)
    THEN [i \in 1..Len(getAllElements(tp)) |->
            IF ~hasInterfaceType(tp, getAllElements(tp)[i].name) THEN EmptySpace
            ELSE ConstructorSpace(tp, getAllElements(tp)[i].name,
                                  constElemSpaces(getAllElements(tp)[i].arg))]
    ELSE << ConstructorSpace(tp, "",
              [i \in 1..Len(getElements(tp)) |-> TypeSpace(getElements(tp)[i])]) >>

examineDecomp(decomposition) ==
  IF Len(decomposition) = 0 THEN EmptySpace
  ELSE IF Len(decomposition) = 1 THEN decomposition[1]
  ELSE DisjunctSpace(decomposition)

\* std::copy_if(..., !s.isEmpty())
\* removeEmpties keeping every space
removeEmptiesKeepAll(sps) == sps

removeEmpties(sps) == SelectSeq(sps, LAMBDA s : ~isEmpty(s))

(***************************************************************************)
(* simplify                                                                *)
(***************************************************************************)
RECURSIVE simplify(_)
\* simplify keeping a constructor one of whose parameters simplifies to Empty
simplifyKeepEmptyParam(s) ==
  CASE s.k = "Constructor" ->
         IF Len(s.sp) = 0 THEN s
         ELSE ConstructorSpace(s.ty, s.head, [i \in 1..Len(s.sp) |-> simplify(s.sp[i])])
    [] s.k = "Type" ->
         IF canDecompose(s.ty) /\ Len(decompose(s.ty)) = 0 THEN EmptySpace ELSE s
    [] s.k = "Disjunct" ->
         LET simplifiedSpaces == [i \in 1..Len(s.sp) |-> simplify(s.sp[i])]
             compatifiedSpaces == removeEmpties(simplifiedSpaces)
         IN IF Len(simplifiedSpaces) = 1 THEN simplifiedSpaces[1]
            ELSE IF Len(compatifiedSpaces) = 0 THEN EmptySpace
            ELSE IF Len(compatifiedSpaces) = 1 THEN compatifiedSpaces[1]
            ELSE DisjunctSpace(compatifiedSpaces)
    [] OTHER -> s

\* simplify without the second unpacking of a singular disjunct
simplifyKeepSingular(s) ==
  CASE s.k = "Constructor" ->
         IF Len(s.sp) = 0 THEN s
         ELSE LET simplifiedSpaces == [i \in 1..Len(s.sp) |-> simplify(s.sp[i])]
              IN IF \E i \in 1..Len(s.sp) : isEmpty(simplifiedSpaces[i])
                   THEN EmptySpace
                   ELSE ConstructorSpace(s.ty, s.head, simplifiedSpaces)
    [] s.k = "Type" ->
         IF canDecompose(s.ty) /\ Len(decompose(s.ty)) = 0 THEN EmptySpace ELSE s
    [] s.k = "Disjunct" ->
         LET simplifiedSpaces == [i \in 1..Len(s.sp) |-> simplify(s.sp[i])]
             compatifiedSpaces == removeEmpties(simplifiedSpaces)
         IN IF Len(simplifiedSpaces) = 1 THEN simplifiedSpaces[1]
            ELSE IF Len(compatifiedSpaces) = 0 THEN EmptySpace
            ELSE DisjunctSpace(compatifiedSpaces)
    [] OTHER -> s

simplify(s) ==
  CASE s.k = "Constructor" ->
         IF Len(s.sp) = 0 THEN s
         ELSE LET simplifiedSpaces == [i \in 1..Len(s.sp) |-> simplify(s.sp[i])]
              IN IF \E i \in 1..Len(s.sp) : isEmpty(simplifiedSpaces[i])
                   THEN EmptySpace
                   ELSE ConstructorSpace(s.ty, s.head, simplifiedSpaces)
    [] s.k = "Type" ->
         IF canDecompose(s.ty) /\ Len(decompose(s.ty)) = 0 THEN EmptySpace ELSE s
    [] s.k = "Disjunct" ->
         LET simplifiedSpaces == [i \in 1..Len(s.sp) |-> simplify(s.sp[i])]
             compatifiedSpaces == removeEmpties(simplifiedSpaces)
         IN IF Len(simplifiedSpaces) = 1 THEN simplifiedSpaces[1]
            ELSE IF Len(compatifiedSpaces) = 0 THEN EmptySpace
            ELSE IF Len(compatifiedSpaces) = 1 THEN compatifiedSpaces[1]
            ELSE DisjunctSpace(compatifiedSpaces)
    [] OTHER -> s

(***************************************************************************)
(* isSubspace.  The call answers "T" or "F"; where it runs into the        *)
(* llvm_unreachable of the pair switch a build with assertions aborts      *)
(* ("U") and in a build without them the behaviour is undefined: the call  *)
(* returns either answer and the caller goes on.  isSubspace is the set of *)
(* the outcomes.                                                           *)
(***************************************************************************)
RECURSIVE isSubspace(_, _), allSubspaces(_, _, _), anySubspace(_, _, _),
          paramSubspaces(_, _, _), intersect(_, _), minus(_, _),
          minusConstructorLoop(_, _, _, _, _), minusAll(_, _, _),
          minusEach(_, _, _)

\* for (auto &space : this->getSpaces()) if (!space.isSubspace(other)) return false;
allSubspaces(sps, other, i) ==
  IF i > Len(sps) THEN {"T"}
  ELSE LET r == isSubspace(sps[i], other)
       IN (r \ {"T"}) \cup (IF "T" \in r THEN allSubspaces(sps, other, i + 1) ELSE {})

\* for (auto &dis : other.getSpaces()) if (this->isSubspace(dis)) return true;
anySubspace(this, sps, i) ==
  IF i > Len(sps) THEN {"F"}
  ELSE LET r == isSubspace(this, sps[i])
       IN (r \ {"F"}) \cup (IF "F" \in r THEN anySubspace(this, sps, i + 1) ELSE {})

\* H(a1, ..., an) <= H(b1, ..., bn) iff a1 <= b1 && ... && an <= bn
paramSubspaces(as, bs, i) ==
  IF i > Len(as) \/ i > Len(bs) THEN {"T"}
  ELSE LET r == isSubspace(as[i], bs[i])
       IN (r \ {"T"}) \cup (IF "T" \in r THEN paramSubspaces(as, bs, i + 1) ELSE {})

isSubspaceTypeType(this, other) ==
  IF this.ty = other.ty THEN {"T"}
  ELSE LET r1 == IF canDecompose(this.ty)
                   THEN isSubspace(DisjunctSpace(decompose(this.ty)), other)
                   ELSE {"F"}
       IN (r1 \ {"F"}) \cup
          (IF "F" \in r1
             THEN IF canDecompose(other.ty)
                    THEN isSubspace(this, DisjunctSpace(decompose(other.ty)))
                    ELSE {"T"}
             ELSE {})

isSubspaceTypeDisjunct(this, other) ==
  LET r == anySubspace(this, other.sp, 1)
  IN (r \ {"F"}) \cup
     (IF "F" \in r
        THEN IF ~canDecompose(this.ty) THEN {"F"}
             ELSE isSubspace(DisjunctSpace(decompose(this.ty)), other)
        ELSE {})

isSubspaceTypeConstructor(this, other) ==
  IF canDecompose(this.ty)
    THEN isSubspace(DisjunctSpace(decompose(this.ty)), other)
    ELSE {"F"}

isSubspaceConstructorConstructor(this, other) ==
  IF this.head # other.head THEN {"F"}
  ELSE IF Len(other.sp) = 0 THEN {"T"}
  ELSE paramSubspaces(this.sp, other.sp, 1)

isSubspace(this, other) ==
  IF isEmpty(this) THEN {"T"}
  ELSE IF isEmpty(other) THEN {"F"}
  ELSE CASE this.k = "Disjunct" -> allSubspaces(this.sp, other, 1)
         [] this.k = "Type" /\ other.k = "Type" -> isSubspaceTypeType(this, other)
         [] this.k = "Type" /\ other.k = "Disjunct" ->
              isSubspaceTypeDisjunct(this, other)
         [] this.k = "Type" /\ other.k = "Constructor" ->
              isSubspaceTypeConstructor(this, other)
         [] this.k = "Constructor" /\ other.k = "Type" -> {"T"}
         [] this.k = "BooleanConstant" /\ other.k = "Type" ->
              IF isBool(other.ty) THEN {"T"} ELSE {"F"}
         [] this.k = "Constructor" /\ other.k = "Constructor" ->
              isSubspaceConstructorConstructor(this, other)
         [] this.k \in {"Constructor", "BooleanConstant"} /\ other.k = "Disjunct" ->
              anySubspace(this, other.sp, 1)
         [] this.k = "BooleanConstant" /\ other.k = "BooleanConstant" ->
              IF this.val = other.val THEN {"T"} ELSE {"F"}
         [] this.k \in {"Constructor", "Type"} /\ other.k = "BooleanConstant" -> {"F"}
         [] OTHER -> {"U", "T", "F"}

(***************************************************************************)
(* intersect                                                               *)
(***************************************************************************)
intersectConstructorConstructor(this, other) ==
  IF this.head # other.head THEN EmptySpace
  ELSE IF Len(other.sp) = 0 THEN this
  ELSE LET n == IF Len(this.sp) < Len(other.sp) THEN Len(this.sp) ELSE Len(other.sp)
           paramSpace == [i \in 1..n |-> intersect(this.sp[i], other.sp[i])]
       IN IF \E i \in 1..n : isEmpty(simplify(paramSpace[i]))
            THEN EmptySpace
            ELSE examineDecomp(paramSpace)

\* intersectTypeType without the fast path for equal types
intersectTypeTypeNoFastPath(this, other) ==
  IF canDecompose(this.ty)
    THEN intersect(examineDecomp(decompose(this.ty)), other)
  ELSE IF canDecompose(other.ty)
    THEN intersect(this, examineDecomp(decompose(other.ty)))
  ELSE other

intersectTypeType(this, other) ==
  IF this.ty = other.ty THEN other
  ELSE IF canDecompose(this.ty)
    THEN intersect(examineDecomp(decompose(this.ty)), other)
  ELSE IF canDecompose(other.ty)
    THEN intersect(this, examineDecomp(decompose(other.ty)))
  ELSE other

intersectBoolType(this, other) ==
  IF isBool(other.ty) THEN this
  ELSE IF canDecompose(other.ty)
    THEN intersect(this, examineDecomp(decompose(other.ty)))
  ELSE EmptySpace

intersect(this, other) ==
  IF isEmpty(this) \/ isEmpty(other) THEN EmptySpace
  ELSE CASE other.k = "Disjunct" ->
              examineDecomp(removeEmpties(
                [i \in 1..Len(other.sp) |-> intersect(this, other.sp[i])]))
         [] this.k = "Disjunct" /\ other.k # "Disjunct" ->
              examineDecomp(removeEmpties(
                [i \in 1..Len(this.sp) |-> intersect(this.sp[i], other)]))
         [] this.k = "Type" /\ other.k = "Type" -> intersectTypeType(this, other)
         [] this.k = "Type" /\ other.k \in {"Constructor", "BooleanConstant"} ->
              IF canDecompose(this.ty)
                THEN intersect(examineDecomp(decompose(this.ty)), other)
                ELSE IF other.k = "Constructor" THEN other ELSE EmptySpace
         [] this.k = "Constructor" /\ other.k = "Type" -> this
         [] this.k = "Constructor" /\ other.k = "Constructor" ->
              intersectConstructorConstructor(this, other)
         [] this.k = "BooleanConstant" /\ other.k = "BooleanConstant" ->
              IF this.val = other.val THEN this ELSE EmptySpace
         [] this.k = "BooleanConstant" /\ other.k = "Type" ->
              intersectBoolType(this, other)
         [] this.k = "BooleanConstant" /\ other.k = "Constructor" -> EmptySpace
         [] this.k = "Constructor" /\ other.k = "BooleanConstant" -> EmptySpace
         [] OTHER -> Unreachable

(***************************************************************************)
(* minus.  The loop over the parameters of two constructors calls          *)
(* isSubspace, so minus is the set of the outcomes too: the spaces a build *)
(* can return, and Unreachable for the abort, which ends the computation.  *)
(***************************************************************************)
\* the accumulation stopping after the first disjunct
minusAllFirstOnly(left, sps, i) ==
  IF i > Len(sps) \/ i > 1 THEN {left}
  ELSE UNION {minusAll(l, sps, i + 1) : l \in minus(left, sps[i])}

\* a fold that restarts from the receiver at every member
minusAllLastOnly(left, sps, i) ==
  IF i > Len(sps) THEN {left} ELSE minus(left, sps[Len(sps)])

\* std::accumulate(other.getSpaces(), *this, left.minus(right))
minusAll(left, sps, i) ==
  IF i > Len(sps) THEN {left}
  ELSE UNION {minusAll(l, sps, i + 1) : l \in minus(left, sps[i])}

\* std::transform(getSpaces(), [&](const Space &first){ return first.minus(other); })
minusEach(sps, other, i) ==
  IF i > Len(sps) THEN {<<>>}
  ELSE {<<m>> \o rest : m \in minus(sps[i], other), rest \in minusEach(sps, other, i + 1)}

minusTypeType(this, other) ==
  IF this.ty = other.ty THEN {EmptySpace}
  ELSE IF canDecompose(this.ty)
    THEN {intersect(examineDecomp(decompose(this.ty)), other)}
  ELSE IF canDecompose(other.ty)
    THEN {intersect(this, examineDecomp(decompose(other.ty)))}
  ELSE {EmptySpace}

\* the loop replacing the parameter in the copy made for the index before
minusConstructorLoopCumulative(this, other, idx, foundBad, constrSpaces) ==
  IF idx > Len(this.sp) \/ idx > Len(other.sp)
    THEN {IF foundBad THEN examineDecomp(constrSpaces) ELSE EmptySpace}
  ELSE LET s1 == this.sp[idx]
           s2 == other.sp[idx]
           copyParams == IF Len(constrSpaces) = 0 THEN this.sp
                         ELSE constrSpaces[Len(constrSpaces)].sp
           CS(m) == ConstructorSpace(this.ty, this.head,
                                     [copyParams EXCEPT ![idx] = m])
       IN IF isEmpty(simplify(intersect(s1, s2))) THEN {this}
          ELSE UNION {IF r = "U" \/ m = Unreachable THEN {Unreachable}
                      ELSE minusConstructorLoop(this, other, idx + 1,
                                                foundBad \/ r = "F",
                                                Append(constrSpaces, CS(m))) :
                        r \in isSubspace(s1, s2), m \in minus(s1, s2)}

\* the loop putting each new constructor space in front of the earlier ones
minusConstructorLoopPrepend(this, other, idx, foundBad, constrSpaces) ==
  IF idx > Len(this.sp) \/ idx > Len(other.sp)
    THEN {IF foundBad THEN examineDecomp(constrSpaces) ELSE EmptySpace}
  ELSE LET s1 == this.sp[idx]
           s2 == other.sp[idx]
           CS(m) == ConstructorSpace(this.ty, this.head,
                                     [this.sp EXCEPT ![idx] = m])
       IN IF isEmpty(simplify(intersect(s1, s2))) THEN {this}
          ELSE UNION {IF r = "U" \/ m = Unreachable THEN {Unreachable}
                      ELSE minusConstructorLoop(this, other, idx + 1,
                                                foundBad \/ r = "F",
                                                <<CS(m)>> \o constrSpaces) :
                        r \in isSubspace(s1, s2), m \in minus(s1, s2)}

\* the loop over the parameters of two constructors with the same head:
\* s1.isSubspace(s2) is undefined where it is unreachable, and the loop
\* goes on with the answer the call gave
minusConstructorLoop(this, other, idx, foundBad, constrSpaces) ==
  IF idx > Len(this.sp) \/ idx > Len(other.sp)
    THEN {IF foundBad THEN examineDecomp(constrSpaces) ELSE EmptySpace}
  ELSE LET s1 == this.sp[idx]
           s2 == other.sp[idx]
           CS(m) == ConstructorSpace(this.ty, this.head,
                                     [this.sp EXCEPT ![idx] = m])
       IN IF isEmpty(simplify(intersect(s1, s2))) THEN {this}
          ELSE UNION {IF r = "U" \/ m = Unreachable THEN {Unreachable}
                      ELSE minusConstructorLoop(this, other, idx + 1,
                                                foundBad \/ r = "F",
                                                Append(constrSpaces, CS(m))) :
                        r \in isSubspace(s1, s2), m \in minus(s1, s2)}

\* minusConstructorConstructor without the comparison of the heads
minusConstructorConstructorAnyHead(this, other) ==
  IF Len(other.sp) = 0 THEN {EmptySpace}
  ELSE minusConstructorLoop(this, other, 1, FALSE, <<>>)

\* minusConstructorConstructor with foundBad starting out true
minusConstructorConstructorFoundBad(this, other) ==
  IF this.head # other.head THEN {this}
  ELSE IF Len(other.sp) = 0 THEN {EmptySpace}
  ELSE minusConstructorLoop(this, other, 1, TRUE, <<>>)

minusConstructorConstructor(this, other) ==
  IF this.head # other.head THEN {this}
  ELSE IF Len(other.sp) = 0 THEN {EmptySpace}
  ELSE minusConstructorLoop(this, other, 1, FALSE, <<>>)

minusBoolType(this, other) ==
  IF isBool(other.ty) THEN {EmptySpace}
  ELSE IF canDecompose(other.ty)
    THEN minus(this, examineDecomp(decompose(other.ty)))
  ELSE {this}

minus(this, other) ==
  IF this = Unreachable \/ other = Unreachable THEN {Unreachable}
  ELSE IF isEmpty(this) THEN {EmptySpace}
  ELSE IF isEmpty(other) THEN {this}
  ELSE CASE this.k = "Type" /\ other.k = "Type" -> minusTypeType(this, other)
         [] this.k = "Type" /\ other.k \in {"Constructor", "BooleanConstant"} ->
              IF canDecompose(this.ty)
                THEN minus(examineDecomp(decompose(this.ty)), other)
                ELSE {this}
         [] other.k = "Disjunct" -> minusAll(this, other.sp, 1)
         [] this.k = "Disjunct" /\ other.k # "Disjunct" ->
              {IF \E i \in 1..Len(ms) : ms[i] = Unreachable THEN Unreachable
               ELSE examineDecomp(ms) : ms \in minusEach(this.sp, other, 1)}
         [] this.k = "Constructor" /\ other.k = "Type" -> {EmptySpace}
         [] this.k = "Constructor" /\ other.k = "Constructor" ->
              minusConstructorConstructor(this, other)
         [] this.k = "BooleanConstant" /\ other.k = "BooleanConstant" ->
              IF this.val = other.val THEN {EmptySpace} ELSE {this}
         [] this.k = "BooleanConstant" /\ other.k = "Type" ->
              minusBoolType(this, other)
         [] this.k = "BooleanConstant" /\ other.k = "Constructor" -> {this}
         [] this.k = "Constructor" /\ other.k = "BooleanConstant" -> {EmptySpace}
         [] OTHER -> {Unreachable}

(***************************************************************************)
(* Values and the set of values a space denotes.                           *)
(***************************************************************************)
\* nesting depth of the values enumerated for a type
ValueDepth == 3

\* the types of the payload values of an enum element, spread like its spaces
argTypes(arg) ==
  IF arg = "" THEN <<>> ELSE IF isTuple(arg) THEN getElements(arg) ELSE <<arg>>

RECURSIVE ValuesOf(_, _), ValueSeqs(_, _)
\* a value is [t: its type, h: its head ("" for a tuple), a: its components]
ValuesOf(tp, d) ==
  IF d = 0 THEN {}
  ELSE CASE tp = "Bool" -> {[t |-> tp, h |-> x, a |-> <<>>] : x \in {"true", "false"}}
         [] tp = "Int" -> {[t |-> tp, h |-> x, a |-> <<>>] : x \in {"0", "1", "2"}}
         [] isTuple(tp) ->
              {[t |-> tp, h |-> "", a |-> as] : as \in ValueSeqs(getElements(tp), d - 1)}
         [] OTHER ->
              UNION {{[t |-> tp, h |-> getAllElements(tp)[i].name, a |-> as] :
                        as \in ValueSeqs(argTypes(getAllElements(tp)[i].arg), d - 1)} :
                     i \in 1..Len(getAllElements(tp))}

ValueSeqs(tys, d) ==
  IF Len(tys) = 0 THEN {<<>>}
  ELSE {<<x>> \o r : x \in ValuesOf(Head(tys), d), r \in ValueSeqs(Tail(tys), d)}

Values(tp) == ValuesOf(tp, ValueDepth)

RECURSIVE Member(_, _)
\* v is one of the values the space s denotes
Member(v, s) ==
  CASE s.k = "Type" -> v.t = s.ty
    [] s.k = "BooleanConstant" ->
         v.t = "Bool" /\ v.h = (IF s.val THEN "true" ELSE "false")
    [] s.k = "Constructor" ->
         /\ v.t = s.ty
         /\ v.h = s.head
         /\ \/ Len(s.sp) = 0
            \/ /\ Len(s.sp) = Len(v.a)
               /\ \A i \in 1..Len(s.sp) : Member(v.a[i], s.sp[i])
    [] s.k = "Disjunct" -> \E i \in 1..Len(s.sp) : Member(v, s.sp[i])
    [] OTHER -> FALSE

Denotes(s, tp) == {v \in Values(tp) : Member(v, s)}

(***************************************************************************)
(* The spaces the operations are applied to: every space well typed over a *)
(* type, by number of nodes.                                               *)
(***************************************************************************)
\* most nodes the two operands of a binary operation have together
MaxNodes == 6

\* the same when the two operands are typed over any two types
MaxMixedNodes == 3

RECURSIVE SpacesN(_, _), ParamsN(_, _), MembersN(_, _)
\* the spaces over tp with exactly n nodes
SpacesN(tp, n) ==
  IF n = 1
    THEN {EmptySpace, TypeSpace(tp), DisjunctSpace(<<>>)}
         \cup (IF isBool(tp) THEN {BoolSpace(TRUE), BoolSpace(FALSE)} ELSE {})
         \cup (IF isEnum(tp)
                 THEN {ConstructorSpace(tp, getAllElements(tp)[i].name, <<>>) :
                         i \in 1..Len(getAllElements(tp))}
                 ELSE {})
         \cup (IF isTuple(tp) /\ Len(getElements(tp)) = 0
                 THEN {ConstructorSpace(tp, "", <<>>)} ELSE {})
    ELSE {DisjunctSpace(ms) : ms \in MembersN(tp, n - 1)}
         \cup (IF isEnum(tp)
                 THEN UNION {{ConstructorSpace(tp, getAllElements(tp)[i].name, cs) :
                                cs \in IF getAllElements(tp)[i].arg = "" THEN {}
                                       ELSE ParamsN(argTypes(getAllElements(tp)[i].arg),
                                                    n - 1)} :
                             i \in 1..Len(getAllElements(tp))}
                 ELSE {})
         \cup (IF isTuple(tp)
                 THEN {ConstructorSpace(tp, "", cs) : cs \in ParamsN(getElements(tp), n - 1)}
                 ELSE {})

\* one space per type of tys, m nodes in all
ParamsN(tys, m) ==
  IF Len(tys) = 0 THEN (IF m = 0 THEN {<<>>} ELSE {})
  ELSE UNION {{<<x>> \o r : x \in SpacesN(Head(tys), k),
                            r \in ParamsN(Tail(tys), m - k)} :
              k \in 1..(m - Len(tys) + 1)}

\* one or more spaces over tp, m nodes in all
MembersN(tp, m) ==
  UNION {{<<x>> \o r : x \in SpacesN(tp, k),
                       r \in IF m = k THEN {<<>>} ELSE MembersN(tp, m - k)} :
         k \in 1..m}

SpacesUpTo(tp, n) == UNION {SpacesN(tp, k) : k \in 1..n}

\* the types the operands of the well-typed algebra are drawn over
AlgebraTypes == {"Bool", "Int", "E", "OptBool", "BB", "Never", "W"}

(***************************************************************************)
(* The algebra applied to two operands.                                    *)
(***************************************************************************)
NoDiag == [kind |-> "none", isDefault |-> FALSE, buffer |-> "", fixIt |-> "",
           flats |-> <<>>, notes |-> <<>>]

\* both operands well typed over one type
InitAlgebra ==
  /\ op = "none"
  /\ ty \in AlgebraTypes
  /\ tyOther = ty
  /\ \E i \in 1..(MaxNodes - 1) :
       /\ a \in SpacesN(ty, i)
       /\ b \in SpacesUpTo(ty, MaxNodes - i)
  /\ res = EmptySpace
  /\ flag = ""
  /\ cases = <<>>
  /\ limited = FALSE
  /\ inEditor = FALSE
  /\ diag = NoDiag
  /\ flatSpaces = <<>>

\* each operand well typed over a type of its own
InitMixed ==
  /\ op = "none"
  /\ ty \in AllTypes
  /\ tyOther \in AllTypes
  /\ \E i \in 1..(MaxMixedNodes - 1) :
       /\ a \in SpacesN(ty, i)
       /\ b \in SpacesUpTo(tyOther, MaxMixedNodes - i)
  /\ res = EmptySpace
  /\ flag = ""
  /\ cases = <<>>
  /\ limited = FALSE
  /\ inEditor = FALSE
  /\ diag = NoDiag
  /\ flatSpaces = <<>>

DoIsSubspace ==
  /\ op = "none"
  /\ op' = "isSubspace"
  /\ flag' \in isSubspace(a, b)
  /\ UNCHANGED <<ty, tyOther, a, b, res, cases, limited, inEditor, diag, flatSpaces>>

DoIntersect ==
  /\ op = "none"
  /\ op' = "intersect"
  /\ res' = intersect(a, b)
  /\ UNCHANGED <<ty, tyOther, a, b, flag, cases, limited, inEditor, diag, flatSpaces>>

DoMinus ==
  /\ op = "none"
  /\ op' = "minus"
  /\ res' \in minus(a, b)
  /\ UNCHANGED <<ty, tyOther, a, b, flag, cases, limited, inEditor, diag, flatSpaces>>

DoSimplify ==
  /\ op = "none"
  /\ op' = "simplify"
  /\ res' = simplify(a)
  /\ UNCHANGED <<ty, tyOther, a, b, flag, cases, limited, inEditor, diag, flatSpaces>>

\* totalSpace.minus(Space(decompose(T))) for a decomposable type
DoDecompose ==
  /\ op = "none"
  /\ canDecompose(ty)
  /\ op' = "decompose"
  /\ res' \in minus(TypeSpace(ty), DisjunctSpace(decompose(ty)))
  /\ UNCHANGED <<ty, tyOther, a, b, flag, cases, limited, inEditor, diag, flatSpaces>>

NextMixed == DoIsSubspace \/ DoIntersect \/ DoMinus \/ DoSimplify \/ DoDecompose

SpecMixed == InitMixed /\ [][NextMixed]_vars

(***************************************************************************)
(* Patterns and their projection into spaces.                              *)
(***************************************************************************)
\* a pattern: its kind, its type, the value of a bool pattern, the element
\* name of an enum element pattern (the literal of an expression pattern),
\* and its sub-patterns
Pat(k, T, v, n, subs) == [kind |-> k, ty |-> T, val |-> v, name |-> n, sub |-> subs]

AnyPattern(T) == Pat("Any", T, FALSE, "", <<>>)

NamedPattern(T) == Pat("Named", T, FALSE, "", <<>>)

BoolPattern(v) == Pat("Bool", "Bool", v, "", <<>>)

ExprPattern(T, lit) == Pat("Expr", T, FALSE, lit, <<>>)

VarPattern(P) == Pat("Var", P.ty, FALSE, "", <<P>>)

ParenPattern(P) == Pat("Paren", P.ty, FALSE, "", <<P>>)

TuplePattern(T, elts) == Pat("Tuple", T, FALSE, "", elts)

OptionalSomePattern(T, P) == Pat("OptionalSome", T, FALSE, "", <<P>>)

EnumElementPattern(T, n, subs) == Pat("EnumElement", T, FALSE, n, subs)

RECURSIVE getSemanticsProvidingPattern(_)
\* the pattern under any parentheses, type annotations and var wrappers
getSemanticsProvidingPattern(P) ==
  IF P.kind \in {"Paren", "Typed", "Var"}
    THEN getSemanticsProvidingPattern(P.sub[1])
    ELSE P

RECURSIVE projectPattern(_)
projectEnumElement(item) ==
  IF Len(item.sub) = 0 THEN ConstructorSpace(item.ty, item.name, <<>>)
  ELSE LET SP == item.sub[1]
       IN CASE SP.kind = "Tuple" ->
                 ConstructorSpace(item.ty, item.name,
                   [i \in 1..Len(SP.sub) |-> projectPattern(SP.sub[i])])
            [] SP.kind = "Paren" ->
                 LET inner == getSemanticsProvidingPattern(SP)
                 IN IF inner.kind \in {"Named", "Any", "Tuple"} /\ isTuple(inner.ty)
                      THEN ConstructorSpace(item.ty, item.name,
                             [i \in 1..Len(getElements(inner.ty)) |->
                                TypeSpace(getElements(inner.ty)[i])])
                      ELSE ConstructorSpace(item.ty, item.name,
                                            <<projectPattern(inner)>>)
            [] OTHER -> projectPattern(SP)

projectPattern(item) ==
  CASE item.kind \in {"Any", "Named"} -> TypeSpace(item.ty)
    [] item.kind = "Bool" -> BoolSpace(item.val)
    [] item.kind \in {"Typed", "Is", "Expr"} -> EmptySpace
    [] item.kind \in {"Var", "Paren"} -> projectPattern(item.sub[1])
    [] item.kind = "OptionalSome" ->
         ConstructorSpace(item.ty, "some", <<projectPattern(item.sub[1])>>)
    [] item.kind = "EnumElement" -> projectEnumElement(item)
    [] item.kind = "Tuple" ->
         ConstructorSpace(item.ty, "",
           [i \in 1..Len(item.sub) |-> projectPattern(item.sub[i])])

(***************************************************************************)
(* show, flatten and the diagnostics.                                      *)
(***************************************************************************)
\* Type::print
printType(tp) ==
  CASE tp = "BB" -> "(Bool, Bool)"
    [] tp = "Unit" -> "()"
    [] tp = "BN" -> "(Bool, Never)"
    [] tp = "IL" -> "(Int, List)"
    [] tp = "OO" -> "(Optional<Bool>, Optional<Bool>)"
    [] tp = "OptBool" -> "Optional<Bool>"
    [] tp = "OptBB" -> "Optional<(Bool, Bool)>"
    [] OTHER -> tp

RECURSIVE show(_, _), showParams(_, _, _), showDisjuncts(_, _)
showParams(sps, normalize, i) ==
  IF i > Len(sps) THEN ""
  ELSE (IF i > 1 THEN ", " ELSE "")
       \o (IF normalize THEN show(simplify(sps[i]), normalize) ELSE show(sps[i], TRUE))
       \o showParams(sps, normalize, i + 1)

showDisjuncts(sps, i) ==
  IF i > Len(sps) THEN ""
  ELSE "\n" \o show(sps[i], FALSE) \o " |" \o showDisjuncts(sps, i + 1)

show(s, normalize) ==
  CASE s.k = "Empty" -> "[EMPTY]"
    [] s.k = "Disjunct" ->
         IF normalize THEN show(simplify(s), FALSE)
         ELSE "DISJOIN(" \o showDisjuncts(s.sp, 1) \o ")"
    [] s.k = "BooleanConstant" -> IF s.val THEN "true" ELSE "false"
    [] s.k = "Constructor" ->
         (IF s.head # "" THEN "." \o s.head ELSE "")
         \o (IF Len(s.sp) = 0 THEN ""
             ELSE "(" \o showParams(s.sp, normalize, 1) \o ")")
    [] s.k = "Type" -> (IF ~normalize THEN printType(s.ty) ELSE "") \o "_"
    [] OTHER -> ""

\* the test that makes flatten leave a constructor parameter alone
skipParam(param) ==
  \/ param.k # "Constructor"
  \/ param.k # "Disjunct"
  \/ param.k # "BooleanConstant"

RECURSIVE flatten(_), flattenParams(_, _, _, _), flattenAll(_, _)
\* one rebuilt constructor per flattened alternative of a parameter
rebuildRows(flattenedParams, i) ==
  [n \in 1..Len(flattenedParams) |->
     LET space == flattenedParams[n]
         row == IF i + 1 \in 1..Len(space.sp)
                  THEN [space.sp EXCEPT ![i + 1] = space] ELSE space.sp
     IN ConstructorSpace(space.ty, space.head, row)]

\* the loop over the parameters: idx is the parameter, i the counter the
\* loop advances only when it does not skip
flattenParams(space, idx, i, flats) ==
  IF idx > Len(space.sp) THEN flats
  ELSE IF skipParam(space.sp[idx]) THEN flattenParams(space, idx + 1, i, flats)
  ELSE flattenParams(space, idx + 1, i + 1,
                     flats \o rebuildRows(flatten(space.sp[idx]), i))

flattenAll(sps, i) ==
  IF i > Len(sps) THEN <<>> ELSE flatten(sps[i]) \o flattenAll(sps, i + 1)

flatten(space) ==
  CASE space.k = "Constructor" -> flattenParams(space, 1, 0, <<>>)
    [] space.k = "Disjunct" -> flattenAll(space.sp, 1)
    [] OTHER -> <<space>>

\* flatten(space, flats) on an empty output array
DoFlatten ==
  /\ op = "none"
  /\ op' = "flatten"
  /\ flatSpaces' = flatten(a)
  /\ UNCHANGED <<ty, tyOther, a, b, res, flag, cases, limited, inEditor, diag>>

NextAlgebra == DoIsSubspace \/ DoIntersect \/ DoMinus \/ DoSimplify \/ DoFlatten

SpecAlgebra == InitAlgebra /\ [][NextAlgebra]_vars

Placeholder == "<#code#>"

RECURSIVE missingFlats(_, _), caseLines(_, _)
\* the flattened spaces of each uncovered space, itself when flatten gives none
missingFlats(sps, i) ==
  IF i > Len(sps) THEN <<>>
  ELSE (IF Len(flatten(sps[i])) = 0 THEN <<sps[i]>> ELSE flatten(sps[i]))
       \o missingFlats(sps, i + 1)

caseLines(flats, i) ==
  IF i > Len(flats) THEN ""
  ELSE "case " \o show(flats[i], TRUE) \o ": " \o Placeholder \o "\n"
       \o caseLines(flats, i + 1)

\* diagnoseMissingCases never marking the diagnostic as asking for a default
diagnoseMissingCasesNeverDefault(cs, InEditor, JustNeedsDefault, uncovered) ==
  IF JustNeedsDefault
    THEN IF Len(cs) = 0
           THEN [kind |-> "empty_switch_stmt", isDefault |-> FALSE, buffer |-> "",
                 fixIt |-> "default: " \o Placeholder \o "\n",
                 flats |-> <<>>, notes |-> <<>>]
           ELSE [kind |-> "non_exhaustive_switch", isDefault |-> FALSE,
                 buffer |-> "", fixIt |-> "default: " \o Placeholder \o "\n",
                 flats |-> <<>>, notes |-> <<>>]
  ELSE IF isEmpty(uncovered) THEN NoDiag
  ELSE LET flats == missingFlats(uncovered.sp, 1)
       IN IF InEditor
            THEN [kind |-> "non_exhaustive_switch", isDefault |-> FALSE,
                  buffer |-> caseLines(flats, 1), fixIt |-> caseLines(flats, 1),
                  flats |-> flats, notes |-> <<>>]
            ELSE [kind |-> "non_exhaustive_switch", isDefault |-> FALSE,
                  buffer |-> "", fixIt |-> "", flats |-> flats,
                  notes |-> [i \in 1..Len(flats) |-> show(flats[i], TRUE)]]

diagnoseMissingCases(cs, InEditor, JustNeedsDefault, uncovered) ==
  IF JustNeedsDefault
    THEN IF Len(cs) = 0
           THEN [kind |-> "empty_switch_stmt", isDefault |-> FALSE, buffer |-> "",
                 fixIt |-> "default: " \o Placeholder \o "\n",
                 flats |-> <<>>, notes |-> <<>>]
           ELSE [kind |-> "non_exhaustive_switch", isDefault |-> isEmpty(uncovered),
                 buffer |-> "", fixIt |-> "default: " \o Placeholder \o "\n",
                 flats |-> <<>>, notes |-> <<>>]
  ELSE IF isEmpty(uncovered) THEN NoDiag
  ELSE LET flats == missingFlats(uncovered.sp, 1)
       IN IF InEditor
            THEN [kind |-> "non_exhaustive_switch", isDefault |-> FALSE,
                  buffer |-> caseLines(flats, 1), fixIt |-> caseLines(flats, 1),
                  flats |-> flats, notes |-> <<>>]
            ELSE [kind |-> "non_exhaustive_switch", isDefault |-> FALSE,
                  buffer |-> "", fixIt |-> "", flats |-> flats,
                  notes |-> [i \in 1..Len(flats) |-> show(flats[i], TRUE)]]

(***************************************************************************)
(* checkExhaustiveness                                                     *)
(***************************************************************************)
\* a case label item: its pattern, whether it has a guard, whether it is
\* the default clause
CaseItem(P, g, d) == [pattern |-> P, guard |-> g, isDefault |-> d]

\* the loop projecting every item, guarded or not
unguardedOrNot(cs) == cs

\* the position of the first default clause without a guard, 0 when none
firstDefault(cs) ==
  LET defaults == {i \in 1..Len(cs) : ~cs[i].guard /\ cs[i].isDefault}
  IN IF defaults = {} THEN 0
     ELSE CHOOSE i \in defaults : \A j \in defaults : i <= j

\* the items the loop projects: those without a guard, up to and with the
\* first default clause among them, where the function returns
unguarded(cs) ==
  LET n == IF firstDefault(cs) = 0 THEN Len(cs) ELSE firstDefault(cs)
  IN SelectSeq(SubSeq(cs, 1, n), LAMBDA c : ~c.guard)

\* auto projection = projectPattern(Ctx, caseItem.getPattern()), in loop order
projections(cs) ==
  [i \in 1..Len(unguarded(cs)) |-> projectPattern(unguarded(cs)[i].pattern)]

\* the vector spaces when the loop is left: the projections pushed, which
\* are those of the items before a default clause
caseSpaces(cs) ==
  LET pushed == SelectSeq(unguarded(cs), LAMBDA c : ~c.isDefault)
  IN [i \in 1..Len(pushed) |-> projectPattern(pushed[i].pattern)]

\* totalSpace.minus(coveredSpace).simplify(): the spaces a build can be left
\* with, Unreachable when the subtraction aborts
uncoveredSpace(subject, cs) ==
  {simplify(m) : m \in minus(TypeSpace(subject), DisjunctSpace(caseSpaces(cs)))}

\* the diagnosis of the space left uncovered, from the test for Empty on
diagnoseUncovered(cs, InEditor, uncovered) ==
  IF uncovered = Unreachable THEN [NoDiag EXCEPT !.kind = "aborted"]
  ELSE IF isEmpty(uncovered) THEN NoDiag
  ELSE IF uncovered.k = "Type"
    THEN IF canDecompose(uncovered.ty)
           THEN diagnoseMissingCases(cs, InEditor, FALSE,
                                     DisjunctSpace(decompose(uncovered.ty)))
           ELSE diagnoseMissingCases(cs, InEditor, TRUE, EmptySpace)
  ELSE IF uncovered.k # "Disjunct"
    THEN diagnoseMissingCases(cs, InEditor, FALSE, DisjunctSpace(<<uncovered>>))
  ELSE diagnoseMissingCases(cs, InEditor, FALSE, uncovered)

\* checkExhaustiveness leaving the loop at a default clause instead of returning
checkExhaustivenessDefaultBreaks(subject, cs, InEditor, limitedChecking) ==
  IF limitedChecking
    THEN {[diag |-> IF Len(cs) = 0
                      THEN diagnoseMissingCases(cs, InEditor, TRUE, EmptySpace)
                      ELSE NoDiag,
           uncovered |-> EmptySpace]}
  ELSE {[diag |-> diagnoseUncovered(cs, InEditor, u), uncovered |-> u] :
          u \in uncoveredSpace(subject, cs)}

\* checkExhaustiveness returning early in limited mode only for an empty switch
checkExhaustivenessLimitedEmptyOnly(subject, cs, InEditor, limitedChecking) ==
  IF limitedChecking /\ Len(cs) = 0
    THEN {[diag |-> diagnoseMissingCases(cs, InEditor, TRUE, EmptySpace),
           uncovered |-> EmptySpace]}
  ELSE IF firstDefault(cs) # 0 THEN {[diag |-> NoDiag, uncovered |-> EmptySpace]}
  ELSE {[diag |-> diagnoseUncovered(cs, InEditor, u), uncovered |-> u] :
          u \in uncoveredSpace(subject, cs)}

\* the outcomes of a check: the diagnostic emitted and the local uncovered,
\* Empty on the paths that return before it is computed
checkExhaustiveness(subject, cs, InEditor, limitedChecking) ==
  IF limitedChecking
    THEN {[diag |-> IF Len(cs) = 0
                      THEN diagnoseMissingCases(cs, InEditor, TRUE, EmptySpace)
                      ELSE NoDiag,
           uncovered |-> EmptySpace]}
  ELSE IF firstDefault(cs) # 0 THEN {[diag |-> NoDiag, uncovered |-> EmptySpace]}
  ELSE {[diag |-> diagnoseUncovered(cs, InEditor, u), uncovered |-> u] :
          u \in uncoveredSpace(subject, cs)}

(***************************************************************************)
(* The values a pattern matches.                                           *)
(***************************************************************************)
\* the argument type of the enum element a value is built with
argOf(v) ==
  LET es == getAllElements(v.t)
      i == CHOOSE i \in 1..Len(es) : es[i].name = v.h
  IN es[i].arg

\* the payload of an enum value as one value of the element's argument type
payload(v) ==
  IF isTuple(argOf(v)) THEN [t |-> argOf(v), h |-> "", a |-> v.a] ELSE v.a[1]

RECURSIVE Matches(_, _)
Matches(v, P) ==
  CASE P.kind \in {"Any", "Named"} -> TRUE
    [] P.kind = "Bool" -> v.h = (IF P.val THEN "true" ELSE "false")
    [] P.kind = "Expr" -> v.h = P.name
    [] P.kind \in {"Var", "Paren"} -> Matches(v, P.sub[1])
    [] P.kind = "Tuple" ->
         Len(P.sub) = Len(v.a) /\ \A i \in 1..Len(P.sub) : Matches(v.a[i], P.sub[i])
    [] P.kind = "OptionalSome" -> v.h = "some" /\ Matches(payload(v), P.sub[1])
    [] P.kind = "EnumElement" ->
         v.h = P.name /\ (Len(P.sub) = 0 \/ Matches(payload(v), P.sub[1]))
    [] OTHER -> FALSE

(***************************************************************************)
(* The switches the driver is applied to: every list of well-typed case    *)
(* label items over a subject type, by number of pattern nodes.            *)
(***************************************************************************)
\* most pattern nodes (a guard counts as one) the items of a switch have
MaxPatNodes == 6

\* most case label items of a switch
MaxCases == 3

OptionalTypes == {"OptBool", "OptBB"}

RECURSIVE PatsN(_, _), PatElemsN(_, _)
\* the well-typed patterns over tp with exactly n nodes
PatsN(tp, n) ==
  IF n = 1
    THEN {AnyPattern(tp), NamedPattern(tp)}
         \cup (IF isBool(tp) THEN {BoolPattern(TRUE), BoolPattern(FALSE)} ELSE {})
         \cup (IF tp = "Int" THEN {ExprPattern(tp, "0"), ExprPattern(tp, "1")} ELSE {})
         \cup (IF isEnum(tp)
                 THEN {EnumElementPattern(tp, getAllElements(tp)[i].name, <<>>) :
                         i \in 1..Len(getAllElements(tp))}
                 ELSE {})
         \cup (IF isTuple(tp) /\ Len(getElements(tp)) = 0
                 THEN {TuplePattern(tp, <<>>)} ELSE {})
    ELSE {VarPattern(P) : P \in {Q \in PatsN(tp, n - 1) : Q.kind = "Named"}}
         \cup (IF isTuple(tp) /\ Len(getElements(tp)) > 0
                 THEN {TuplePattern(tp, es) : es \in PatElemsN(getElements(tp), n - 1)}
                 ELSE {})
         \cup (IF isEnum(tp)
                 THEN UNION {
                   LET e == getAllElements(tp)[i]
                   IN IF e.arg = "" THEN {}
                      ELSE {EnumElementPattern(tp, e.name, <<ParenPattern(P)>>) :
                              P \in IF n >= 3 THEN PatsN(e.arg, n - 2) ELSE {}}
                           \cup {EnumElementPattern(tp, e.name, <<T>>) :
                                   T \in {Q \in PatsN(e.arg, n - 1) : Q.kind = "Tuple"}} :
                   i \in 1..Len(getAllElements(tp))}
                 ELSE {})
         \cup (IF tp \in OptionalTypes
                 THEN {OptionalSomePattern(tp, P) :
                         P \in PatsN(getAllElements(tp)[2].arg, n - 1)}
                 ELSE {})

\* one pattern per type of tys, m nodes in all
PatElemsN(tys, m) ==
  IF Len(tys) = 0 THEN (IF m = 0 THEN {<<>>} ELSE {})
  ELSE UNION {{<<x>> \o r : x \in PatsN(Head(tys), k),
                            r \in PatElemsN(Tail(tys), m - k)} :
              k \in 1..(m - Len(tys) + 1)}

\* the case label items over tp with exactly n nodes
ItemsN(tp, n) ==
  {CaseItem(P, FALSE, FALSE) : P \in PatsN(tp, n)}
  \cup {CaseItem(P, TRUE, FALSE) : P \in IF n >= 2 THEN PatsN(tp, n - 1) ELSE {}}
  \cup (IF n = 1 THEN {CaseItem(AnyPattern(tp), FALSE, TRUE)} ELSE {})
  \cup (IF n = 2 THEN {CaseItem(AnyPattern(tp), TRUE, TRUE)} ELSE {})

RECURSIVE CaseListsN(_, _, _)
\* the lists of at most c items over tp with at most m nodes in all
CaseListsN(tp, m, c) ==
  {<<>>} \cup
  (IF c = 0 THEN {}
   ELSE UNION {{<<x>> \o r : x \in ItemsN(tp, k), r \in CaseListsN(tp, m - k, c - 1)} :
               k \in 1..m})

\* the subject types of the switches
SubjectTypes == {"Bool", "Int", "E", "OptBool", "BB", "P", "OptBB", "Never", "W", "Unit"}

InitDriver ==
  /\ op = "none"
  /\ ty \in SubjectTypes
  /\ tyOther = ty
  /\ a = EmptySpace
  /\ b = EmptySpace
  /\ res = EmptySpace
  /\ flag = ""
  /\ cases \in CaseListsN(ty, MaxPatNodes, MaxCases)
  /\ limited = FALSE
  /\ inEditor = FALSE
  /\ diag = NoDiag
  /\ flatSpaces = <<>>

\* TypeChecker::checkSwitchExhaustiveness(stmt, limited)
CheckSwitchExhaustiveness ==
  /\ op = "none"
  /\ op' = "check"
  /\ \E lim \in BOOLEAN, ed \in BOOLEAN :
       /\ limited' = lim
       /\ inEditor' = ed
       /\ \E o \in checkExhaustiveness(ty, cases, ed, lim) :
            /\ diag' = o.diag
            /\ res' = o.uncovered
  /\ UNCHANGED <<ty, tyOther, a, b, flag, cases, flatSpaces>>

NextDriver == CheckSwitchExhaustiveness

Spec == InitDriver /\ [][NextDriver]_vars

(***************************************************************************)
(* Switches over a pair of optionals.                                      *)
(***************************************************************************)
\* most case label items of a switch over the pair
MaxTupleCases == 2

\* .none, .some(_) and _ over Optional<Bool>
OptionalPatterns ==
  { EnumElementPattern("OptBool", "none", <<>>),
    EnumElementPattern("OptBool", "some", <<ParenPattern(AnyPattern("Bool"))>>),
    AnyPattern("OptBool") }

\* the case label items (p, q) over (Optional<Bool>, Optional<Bool>)
TupleItems ==
  {CaseItem(TuplePattern("OO", <<p, q>>), FALSE, FALSE) :
     p \in OptionalPatterns, q \in OptionalPatterns}

RECURSIVE TupleCaseLists(_)
\* the lists of at most c such items
TupleCaseLists(c) ==
  {<<>>} \cup
  (IF c = 0 THEN {}
   ELSE {<<x>> \o r : x \in TupleItems, r \in TupleCaseLists(c - 1)})

InitTuple ==
  /\ op = "none"
  /\ ty = "OO"
  /\ tyOther = ty
  /\ a = EmptySpace
  /\ b = EmptySpace
  /\ res = EmptySpace
  /\ flag = ""
  /\ cases \in TupleCaseLists(MaxTupleCases)
  /\ limited = FALSE
  /\ inEditor = FALSE
  /\ diag = NoDiag
  /\ flatSpaces = <<>>

SpecTuple == InitTuple /\ [][NextDriver]_vars

(***************************************************************************)
(* Switches over the recursive enum List { nil, cons(Int, List) }.         *)
(***************************************************************************)
\* most nested enum element patterns of a case label item over List
MaxListDepth == 2

\* most case label items of a switch over List
MaxListCases == 2

RECURSIVE ListPatterns(_)
\* _, .nil and .cons(i, p) with i one of _ and 0 and p a pattern one deeper
ListPatterns(d) ==
  IF d = 0
    THEN {AnyPattern("List"), EnumElementPattern("List", "nil", <<>>)}
    ELSE ListPatterns(d - 1)
         \cup {EnumElementPattern("List", "cons", <<TuplePattern("IL", <<i, p>>)>>) :
                 i \in {AnyPattern("Int"), ExprPattern("Int", "0")},
                 p \in ListPatterns(d - 1)}

RECURSIVE ListCaseLists(_)
\* the lists of at most c unguarded items over List
ListCaseLists(c) ==
  {<<>>} \cup
  (IF c = 0 THEN {}
   ELSE {<<CaseItem(P, FALSE, FALSE)>> \o r :
           P \in ListPatterns(MaxListDepth), r \in ListCaseLists(c - 1)})

InitList ==
  /\ op = "none"
  /\ ty = "List"
  /\ tyOther = ty
  /\ a = EmptySpace
  /\ b = EmptySpace
  /\ res = EmptySpace
  /\ flag = ""
  /\ cases \in ListCaseLists(MaxListCases)
  /\ limited = FALSE
  /\ inEditor = FALSE
  /\ diag = NoDiag
  /\ flatSpaces = <<>>

SpecList == InitList /\ [][NextDriver]_vars

(***************************************************************************)
(* Properties.                                                             *)
(***************************************************************************)
\* the switch has no default clause
NoDefault == \A i \in 1..Len(cases) : ~cases[i].isDefault

\* some unguarded case label pattern matches v
Covered(v) == \E i \in 1..Len(cases) : ~cases[i].guard /\ Matches(v, cases[i].pattern)

\* C1: in normal mode, for a switch without a default clause, when no
\* diagnostic is emitted every value of the subject type is matched by an
\* unguarded case label pattern.
C1_Soundness ==
  (op = "check" /\ ~limited /\ NoDefault /\ diag.kind = "none")
    => \A v \in Values(ty) : Covered(v)

\* C2: in normal mode, when the unguarded case label patterns match every
\* value of the subject type, the residual simplifies to Empty and no
\* diagnostic is emitted.
C2_Completeness ==
  (op = "check" /\ ~limited /\ NoDefault /\ \A v \in Values(ty) : Covered(v))
    => (isEmpty(res) /\ diag.kind = "none")

\* C3: minus is exact: a.minus(b) denotes the values of a that are not
\* values of b.
C3_MinusExact ==
  op = "minus"
    => \A v \in Values(ty) : Member(v, res) <=> (Member(v, a) /\ ~Member(v, b))

\* C4: isSubspace is sound: when a.isSubspace(b) is true every value of a
\* is a value of b.
C4_SubspaceSound ==
  (op = "isSubspace" /\ flag = "T")
    => \A v \in Values(ty) : Member(v, a) => Member(v, b)

\* C5: when a.isSubspace(b) is true, a.minus(b).simplify() is Empty, for
\* spaces of any variants over any types.
C5_SubspaceImpliesEmptyDifference ==
  (op = "minus" /\ "T" \in isSubspace(a, b)) => isEmpty(simplify(res))

\* tp is an enum with cases, all of them missing type information
AllElementsMalformed(tp) ==
  /\ isEnum(tp)
  /\ Len(getAllElements(tp)) > 0
  /\ \A i \in 1..Len(getAllElements(tp)) :
       ~hasInterfaceType(tp, getAllElements(tp)[i].name)

\* C6 as stated: for every decomposable type T,
\* Type(T).minus(Disjunct(decompose(T))).simplify() is Empty.
C6_DecompositionComplete == op = "decompose" => isEmpty(simplify(res))

\* C6 amended: for every decomposable type T,
\* Type(T).minus(Disjunct(decompose(T))).simplify() is Empty, unless T is
\* an enum that has cases and all of them are missing type information,
\* and then it is Type(T).
C6_Amended ==
  op = "decompose"
    => IF AllElementsMalformed(ty) THEN simplify(res) = TypeSpace(ty)
       ELSE isEmpty(simplify(res))

\* an enum whose payload is uninhabited, or an enum with one case missing
\* type information beside one that has it: the difference is not Empty
\* itself and simplifies to Empty
C6_Witness ==
  op = "decompose" /\ ty \in {"W", "H"} /\ ~isEmpty(res) /\ isEmpty(simplify(res))

\* C7: simplify is idempotent: s.simplify().simplify() is structurally
\* equal to s.simplify().
C7_SimplifyIdempotent == op = "simplify" => simplify(res) = res

\* a disjunct with an Empty member that simplify unpacks
C7_Witness ==
  /\ op = "simplify"
  /\ a.k = "Disjunct"
  /\ \E i \in 1..Len(a.sp) : isEmpty(a.sp[i])
  /\ res.k \notin {"Disjunct", "Empty"}

\* C8: s.intersect(Type(T)) equals s up to simplify for s well typed in T;
\* s.minus(Empty) equals s; Empty.minus(s) equals Empty.
C8_IdentityLaws ==
  /\ (op = "intersect" /\ b = TypeSpace(ty)) => simplify(res) = simplify(a)
  /\ (op = "minus" /\ isEmpty(b)) => res = a
  /\ (op = "minus" /\ isEmpty(a)) => isEmpty(res)

\* a disjunct intersected with the type: the result is not s itself, only
\* equal to it after simplify
C8_Witness ==
  /\ op = "intersect"
  /\ b = TypeSpace(ty)
  /\ a.k = "Disjunct"
  /\ res # a
  /\ ~isEmpty(res)
  /\ simplify(res) = simplify(a)

\* C9: for operands that are not disjuncts, simplify(a.intersect(b))
\* equals simplify(b.intersect(a)).
C9_IntersectCommutes ==
  (op = "intersect" /\ a.k # "Disjunct" /\ b.k # "Disjunct")
    => simplify(res) = simplify(intersect(b, a))

\* the minuend and the subtrahend are constructors with one head and as
\* many children
SameHeadMinus ==
  /\ op = "minus"
  /\ a.k = "Constructor"
  /\ b.k = "Constructor"
  /\ a.head = b.head
  /\ Len(a.sp) = Len(b.sp)

\* the children differ in position i and in no other
DiffersOnlyAt(i) ==
  a.sp[i] # b.sp[i] /\ \A j \in 1..Len(a.sp) : j # i => a.sp[j] = b.sp[j]

\* the children in position i overlap
OverlapAt(i) == ~isEmpty(simplify(intersect(a.sp[i], b.sp[i])))

\* no child of the minuend simplifies to Empty
NoEmptyChild == \A j \in 1..Len(a.sp) : ~isEmpty(simplify(a.sp[j]))

\* C10 as stated: subtracting an identical constructor yields Empty;
\* subtracting a constructor with the same head whose children differ in
\* exactly one position, and overlap there, yields one Constructor after
\* simplify.
C10_Original ==
  /\ (SameHeadMinus /\ a = b) => isEmpty(res)
  /\ SameHeadMinus =>
       \A i \in 1..Len(a.sp) :
         (DiffersOnlyAt(i) /\ OverlapAt(i)) => simplify(res).k = "Constructor"

\* C10 amended: subtracting an identical constructor yields a space that
\* simplifies to Empty: Empty itself when no child simplifies to Empty, the
\* minuend otherwise.  Subtracting a constructor with the same head whose
\* children differ in exactly one position yields one Constructor after
\* simplify when the children overlap there, their difference does not
\* simplify to Empty, and no child of the minuend simplifies to Empty.
C10_Amended ==
  /\ (SameHeadMinus /\ a = b) =>
       /\ isEmpty(simplify(res))
       /\ IF NoEmptyChild THEN isEmpty(res) ELSE res = a
  /\ SameHeadMinus =>
       \A i \in 1..Len(a.sp) :
         ( /\ DiffersOnlyAt(i)
           /\ OverlapAt(i)
           /\ \A m \in minus(a.sp[i], b.sp[i]) : ~isEmpty(simplify(m))
           /\ NoEmptyChild )
           => simplify(res).k = "Constructor"

\* two children, the first differs: minus gives one constructor per child
\* and simplify leaves one
C10_Witness ==
  /\ SameHeadMinus
  /\ Len(a.sp) = 2
  /\ DiffersOnlyAt(1)
  /\ OverlapAt(1)
  /\ \A m \in minus(a.sp[1], b.sp[1]) : ~isEmpty(simplify(m))
  /\ NoEmptyChild
  /\ res.k = "Disjunct"
  /\ Len(res.sp) = 2
  /\ simplify(res).k = "Constructor"

\* C11: the values of the spaces flatten(s) gives are, together, the values
\* of s.
C11_FlattenFaithful ==
  op = "flatten"
    => \A v \in Values(ty) :
         (\E i \in 1..Len(flatSpaces) : Member(v, flatSpaces[i])) <=> Member(v, a)

\* the switch of scenario S4: (.some(_), .some(_)) then (.none, .none)
S4Cases ==
  << CaseItem(TuplePattern("OO",
       << EnumElementPattern("OptBool", "some", <<ParenPattern(AnyPattern("Bool"))>>),
          EnumElementPattern("OptBool", "some", <<ParenPattern(AnyPattern("Bool"))>>) >>),
       FALSE, FALSE),
     CaseItem(TuplePattern("OO",
       << EnumElementPattern("OptBool", "none", <<>>),
          EnumElementPattern("OptBool", "none", <<>>) >>),
       FALSE, FALSE) >>

\* the missing patterns as they are shown, in the order reported
shownMissing == [i \in 1..Len(diag.flats) |-> show(diag.flats[i], TRUE)]

\* C12: the switch of S4 is reported non-exhaustive and the missing patterns
\* are exactly (.none, .some(_)) followed by (.some(_), .none).
C12_ScenarioS4 ==
  (op = "check" /\ ~limited /\ ty = "OO" /\ cases = S4Cases)
    => /\ diag.kind = "non_exhaustive_switch"
       /\ ~diag.isDefault
       /\ shownMissing = <<"(.none, .some(_))", "(.some(_), .none)">>

\* S4 checked outside the editor: two notes, one per missing pattern
C12_Witness ==
  /\ op = "check"
  /\ ~limited
  /\ ~inEditor
  /\ ty = "OO"
  /\ cases = S4Cases
  /\ res.k = "Disjunct"
  /\ diag.notes = <<"(.none, .some(_))", "(.some(_), .none)">>

\* every case label item is an unguarded enum element pattern without a
\* sub-pattern, and there is at least one
HeadOnlyCases ==
  /\ Len(cases) > 0
  /\ \A i \in 1..Len(cases) :
       /\ ~cases[i].guard
       /\ ~cases[i].isDefault
       /\ cases[i].pattern.kind = "EnumElement"
       /\ Len(cases[i].pattern.sub) = 0

\* the heads the case label items name
CaseHeads == {cases[i].pattern.name : i \in 1..Len(cases)}

\* the heads of the subject type
SubjectHeads == {getAllElements(ty)[i].name : i \in 1..Len(getAllElements(ty))}

\* C13: a switch over an enum of nullary cases whose items are head-only
\* patterns is exhaustive iff the items name every head; otherwise the
\* missing patterns are the heads not named, each reported once.
C13_NullaryEnum ==
  (op = "check" /\ ~limited /\ ty = "E" /\ HeadOnlyCases)
    => IF CaseHeads = SubjectHeads
         THEN diag.kind = "none" /\ isEmpty(res)
         ELSE /\ diag.kind = "non_exhaustive_switch"
              /\ ~diag.isDefault
              /\ {shownMissing[i] : i \in 1..Len(shownMissing)}
                   = {"." \o h : h \in SubjectHeads \ CaseHeads}
              /\ Len(shownMissing) = Cardinality(SubjectHeads \ CaseHeads)

\* .c then .a: the one missing pattern is .b
C13_Witness ==
  /\ op = "check"
  /\ ~limited
  /\ ty = "E"
  /\ HeadOnlyCases
  /\ Len(cases) = 2
  /\ cases[1].pattern.name = "c"
  /\ cases[2].pattern.name = "a"
  /\ shownMissing = <<".b">>

\* the pattern .some(true) or .some(false) over Optional<Bool>
SomeBool(bb) ==
  EnumElementPattern("OptBool", "some", <<ParenPattern(BoolPattern(bb))>>)

\* the switches of scenario S3: .none and .some(bb), in either order
S3Cases(bb) ==
  LET none == CaseItem(EnumElementPattern("OptBool", "none", <<>>), FALSE, FALSE)
      some == CaseItem(SomeBool(bb), FALSE, FALSE)
  IN {<<none, some>>, <<some, none>>}

\* C14: for subject Optional<Bool> and the cases .none and .some(b) the
\* switch is reported non-exhaustive and the one missing pattern is
\* .some(not b).
C14_ScenarioS3 ==
  \A bb \in BOOLEAN :
    (op = "check" /\ ~limited /\ ty = "OptBool" /\ cases \in S3Cases(bb))
      => /\ diag.kind = "non_exhaustive_switch"
         /\ ~diag.isDefault
         /\ shownMissing = <<IF bb THEN ".some(false)" ELSE ".some(true)">>

\* .none then .some(false) in the editor: the fix-it adds case .some(true)
C14_Witness ==
  /\ op = "check"
  /\ ~limited
  /\ inEditor
  /\ ty = "OptBool"
  /\ cases \in S3Cases(FALSE)
  /\ cases[1].pattern.name = "none"
  /\ diag.fixIt = "case .some(true): " \o Placeholder \o "\n"

\* C15: in limited mode the empty-switch diagnostic is emitted iff the
\* switch has no cases; otherwise nothing is emitted and no space is
\* computed, whatever the patterns are.
C15_LimitedMode ==
  (op = "check" /\ limited)
    => /\ (diag.kind = "empty_switch_stmt") <=> (Len(cases) = 0)
       /\ Len(cases) = 0 => diag.fixIt = "default: " \o Placeholder \o "\n"
       /\ Len(cases) # 0 => diag = NoDiag
       /\ res = EmptySpace

\* a switch that normal mode reports as non-exhaustive passes in limited mode
C15_Witness ==
  /\ op = "check"
  /\ limited
  /\ Len(cases) > 0
  /\ \A u \in uncoveredSpace(ty, cases) : ~isEmpty(u)
  /\ \A o \in checkExhaustiveness(ty, cases, inEditor, FALSE) :
       o.diag.kind = "non_exhaustive_switch"
  /\ diag = NoDiag

\* item i of the switch is a default clause without a guard
UnguardedDefault(i) == ~cases[i].guard /\ cases[i].isDefault

\* C16: in normal mode a switch with an unguarded default clause gets no
\* diagnostic, whatever the other cases are and wherever the default is.
C16_DefaultClause ==
  (op = "check" /\ ~limited /\ \E i \in 1..Len(cases) : UnguardedDefault(i))
    => diag = NoDiag

\* the default clause comes first and the case after it alone would leave
\* values uncovered
C16_Witness ==
  /\ op = "check"
  /\ ~limited
  /\ Len(cases) = 2
  /\ UnguardedDefault(1)
  /\ ~cases[2].isDefault
  /\ \A o \in checkExhaustiveness(ty, Tail(cases), inEditor, FALSE) :
       o.diag.kind = "non_exhaustive_switch"
  /\ diag = NoDiag

\* the case label items that have no guard
WithoutGuarded == SelectSeq(cases, LAMBDA c : ~c.guard)

\* the case label items with their guards taken off
GuardsCleared == [i \in 1..Len(cases) |-> [cases[i] EXCEPT !.guard = FALSE]]

\* C17: in normal mode the residual of a switch is the residual of the
\* switch without its guarded items; a switch over an inhabited type whose
\* items all have guards is reported non-exhaustive.
C17_GuardedCases ==
  (op = "check" /\ ~limited /\ ~\E i \in 1..Len(cases) : UnguardedDefault(i))
    => /\ res \in uncoveredSpace(ty, WithoutGuarded)
       /\ (Len(cases) > 0 /\ Len(WithoutGuarded) = 0 /\ Values(ty) # {})
            => /\ res = TypeSpace(ty)
               /\ diag.kind = "non_exhaustive_switch"

\* a guarded item whose pattern would have completed the coverage
C17_Witness ==
  /\ op = "check"
  /\ ~limited
  /\ Len(WithoutGuarded) > 0
  /\ Len(WithoutGuarded) < Len(cases)
  /\ \A i \in 1..Len(cases) : ~cases[i].isDefault
  /\ \A u \in uncoveredSpace(ty, GuardsCleared) : isEmpty(u)
  /\ ~isEmpty(res)
  /\ diag.kind = "non_exhaustive_switch"

\* normal mode reached the residual and it is the space of a type that
\* cannot be decomposed
OpaqueResidual ==
  /\ op = "check"
  /\ ~limited
  /\ ~\E i \in 1..Len(cases) : UnguardedDefault(i)
  /\ res.k = "Type"
  /\ ~canDecompose(res.ty)

\* C18 as stated: for any case list, when the simplified residual is
\* Type(T) with T not decomposable the diagnostic is the non-exhaustive
\* diagnostic asking for a default.
C18_Original ==
  OpaqueResidual
    => /\ diag.kind = "non_exhaustive_switch"
       /\ diag.isDefault
       /\ diag.fixIt = "default: " \o Placeholder \o "\n"

\* C18 amended: when the simplified residual is Type(T) with T not
\* decomposable, the diagnostic is the non-exhaustive diagnostic asking for
\* a default if the switch has a case, and the empty-switch diagnostic if
\* it has none; either carries the fix-it inserting a default clause and
\* neither lists missing patterns.
C18_Amended ==
  OpaqueResidual
    => /\ IF Len(cases) = 0
            THEN diag.kind = "empty_switch_stmt"
            ELSE diag.kind = "non_exhaustive_switch" /\ diag.isDefault
       /\ diag.fixIt = "default: " \o Placeholder \o "\n"
       /\ diag.flats = <<>>
       /\ diag.notes = <<>>

\* scenario S6: subject Int, two expression patterns
C18_Witness ==
  /\ OpaqueResidual
  /\ ty = "Int"
  /\ Len(cases) = 2
  /\ \A i \in 1..2 : cases[i].pattern.kind = "Expr" /\ ~cases[i].guard
  /\ cases[1].pattern # cases[2].pattern
  /\ diag.kind = "non_exhaustive_switch"
  /\ diag.isDefault

RECURSIVE Aborted(_)
\* the computation of s reached an unhandled pair
Aborted(s) ==
  \/ s.k = "Unreachable"
  \/ \E i \in 1..Len(s.sp) : Aborted(s.sp[i])

\* C19: isSubspace, intersect and minus return a result for every pair of
\* spaces and never reach the unhandled-pair abort; isSubspace of a
\* BoolConst against a Constructor returns false.
C19_Totality ==
  /\ op = "isSubspace" => flag \in {"T", "F"}
  /\ op \in {"intersect", "minus"} => ~Aborted(res)
  /\ (op = "isSubspace" /\ a.k = "BooleanConstant" /\ b.k = "Constructor")
       => flag = "F"

\* the greatest of a sequence of numbers, 0 when there is none
MaxOf(ns) == IF Len(ns) = 0 THEN 0
             ELSE CHOOSE n \in {ns[i] : i \in 1..Len(ns)} :
                    \A i \in 1..Len(ns) : ns[i] <= n

RECURSIVE patternDepth(_)
\* how deep enum element patterns nest in a pattern
patternDepth(P) ==
  (IF P.kind \in {"EnumElement", "OptionalSome"} THEN 1 ELSE 0)
  + MaxOf([i \in 1..Len(P.sub) |-> patternDepth(P.sub[i])])

RECURSIVE spaceDepth(_)
\* how deep constructor spaces with a head nest in a space
spaceDepth(s) ==
  (IF s.k = "Constructor" /\ s.head # "" THEN 1 ELSE 0)
  + MaxOf([i \in 1..Len(s.sp) |-> spaceDepth(s.sp[i])])

\* C20: over the recursive enum List the residual of every switch is
\* computed, without reaching an abort, and Type(List) is decomposed only
\* as deep as the patterns go: constructor spaces nest in the residual no
\* deeper than enum element patterns nest in the case label items.
C20_RecursiveTypes ==
  (op = "check" /\ ~limited /\ ty = "List")
    => /\ res \in uncoveredSpace(ty, cases)
       /\ ~Aborted(res)
       /\ spaceDepth(res)
            <= MaxOf([i \in 1..Len(cases) |-> patternDepth(cases[i].pattern)])

\* .nil and .cons(_, .nil): the residual is .cons(_, .cons(_, _))
C20_Witness ==
  /\ op = "check"
  /\ ~limited
  /\ ty = "List"
  /\ Len(cases) = 2
  /\ patternDepth(cases[1].pattern) = 1
  /\ patternDepth(cases[2].pattern) = 2
  /\ spaceDepth(res) = 2
  /\ shownMissing = <<".cons(_, .cons(_, _))">>

\* C21: for unequal types T and U, Type(T).minus(Type(U)) is
\* Disjunct(decompose(T)).minus(Type(U)) when T is decomposable,
\* Type(T).minus(Disjunct(decompose(U))) when only U is, and Empty when
\* neither is.
C21_TypeMinusType ==
  (op = "minus" /\ a.k = "Type" /\ b.k = "Type" /\ a.ty # b.ty)
    => res \in IF canDecompose(a.ty)
                 THEN minus(DisjunctSpace(decompose(a.ty)), b)
               ELSE IF canDecompose(b.ty)
                 THEN minus(a, DisjunctSpace(decompose(b.ty)))
               ELSE {EmptySpace}

\* C22: the intersection of two constructors is Empty when the heads
\* differ and the receiver when the other has no children; when both have
\* as many children, one or more, it is Empty if the intersection of some
\* pair of children simplifies to Empty and otherwise the Constructor of
\* the same type and head over the intersections of the children.
C22_ConstructorIntersect ==
  (op = "intersect" /\ a.k = "Constructor" /\ b.k = "Constructor")
    => IF a.head # b.head THEN res = EmptySpace
       ELSE IF Len(b.sp) = 0 THEN res = a
       ELSE (Len(a.sp) > 0 /\ Len(a.sp) = Len(b.sp))
              => res = IF \E i \in 1..Len(a.sp) :
                            isEmpty(simplify(intersect(a.sp[i], b.sp[i])))
                         THEN EmptySpace
                         ELSE ConstructorSpace(a.ty, a.head,
                                [i \in 1..Len(a.sp) |-> intersect(a.sp[i], b.sp[i])])

\* the minuend and the subtrahend are constructors with one head and as
\* many children, one or more, and the call returned
SamePayloadMinus == SameHeadMinus /\ Len(a.sp) >= 1 /\ res # Unreachable

\* the differences of the children, position by position, that the calls
\* of minus on them can give
ChildDifferences ==
  {d \in [1..Len(a.sp) -> UNION {minus(a.sp[i], b.sp[i]) : i \in 1..Len(a.sp)}] :
     \A i \in 1..Len(a.sp) : d[i] \in minus(a.sp[i], b.sp[i])}

\* the minuend with child i replaced by the difference of the children
\* in position i, for each i
Reconstructions ==
  {[i \in 1..Len(a.sp) |->
      ConstructorSpace(a.ty, a.head, [a.sp EXCEPT ![i] = d[i]])] :
     d \in ChildDifferences}

\* some pair of children has an intersection that simplifies to Empty
DisjointChild ==
  \E i \in 1..Len(a.sp) : isEmpty(simplify(intersect(a.sp[i], b.sp[i])))

\* isSubspace can answer true for every child of the minuend against the
\* child it is paired with
CoveredChildren == \A i \in 1..Len(a.sp) : "T" \in isSubspace(a.sp[i], b.sp[i])

\* isSubspace can answer false for some child of the minuend
UncoveredChild == \E i \in 1..Len(a.sp) : "F" \in isSubspace(a.sp[i], b.sp[i])

\* C23 as stated: the difference of C(a1..aN) and C(b1..bN), N >= 1, is
\* the minuend when some ai and bi are disjoint, Empty when every ai is a
\* subspace of bi, and otherwise the Disjunct of the N reconstructions.
C23_Original ==
  SamePayloadMinus
    => IF DisjointChild THEN res = a
       ELSE \/ CoveredChildren /\ res = EmptySpace
            \/ UncoveredChild /\ \E R \in Reconstructions : res = DisjunctSpace(R)

\* C23 amended: as above, except that for N = 1 the result is the one
\* reconstruction itself, not a Disjunct of it.
C23_Amended ==
  SamePayloadMinus
    => IF DisjointChild THEN res = a
       ELSE \/ CoveredChildren /\ res = EmptySpace
            \/ UncoveredChild /\ \E R \in Reconstructions :
                 res = IF Len(a.sp) = 1 THEN R[1] ELSE DisjunctSpace(R)

\* two children, both of them overlapping and neither pair covered: two
\* reconstructions
C23_Witness ==
  /\ SamePayloadMinus
  /\ Len(a.sp) = 2
  /\ ~DisjointChild
  /\ \A i \in 1..2 : isSubspace(a.sp[i], b.sp[i]) = {"F"}
  /\ \E R \in Reconstructions : res = DisjunctSpace(R)
  /\ \A i \in 1..2 : ~isEmpty(simplify(res.sp[i]))

RECURSIVE HasDisjunct(_)
\* a Disjunct occurs in s, at the top or deeper
HasDisjunct(s) ==
  \/ s.k = "Disjunct"
  \/ \E i \in 1..Len(s.sp) : HasDisjunct(s.sp[i])

\* child i of the constructor a is the only one flatten has to unpack
OnlyUnpacked(i) ==
  /\ a.sp[i].k \in {"Disjunct", "Constructor", "BooleanConstant"}
  /\ \A j \in 1..Len(a.sp) : j # i => a.sp[j].k = "Type"

\* C24: no space flatten gives contains a Disjunct, and a Constructor with
\* a disjunctive, constructor or bool-constant child is expanded into one
\* rebuilt Constructor per flattened alternative of that child.
C24_FlattenExpands ==
  /\ op = "flatten"
       => /\ \A n \in 1..Len(flatSpaces) : ~HasDisjunct(flatSpaces[n])
          /\ a.k = "Constructor"
               => \A i \in 1..Len(a.sp) :
                    OnlyUnpacked(i)
                      => flatSpaces =
                           [n \in 1..Len(flatten(a.sp[i])) |->
                              ConstructorSpace(a.ty, a.head,
                                [a.sp EXCEPT ![i] = flatten(a.sp[i])[n]])]
  /\ op = "check" => \A n \in 1..Len(diag.flats) : ~HasDisjunct(diag.flats[n])

RECURSIVE NormalForm(_)
\* no Empty occurs in s and every Disjunct in s has two members or more
NormalForm(s) ==
  /\ ~isEmpty(s)
  /\ s.k = "Disjunct" => Len(s.sp) >= 2
  /\ \A i \in 1..Len(s.sp) : NormalForm(s.sp[i])

\* C25: s.simplify() is Empty itself, or contains no Empty at any depth
\* and no Disjunct with fewer than two members.
C25_SimplifyNormalForm == op = "simplify" => (isEmpty(res) \/ NormalForm(res))

\* a constructor whose child is a disjunct with an Empty member: the child
\* stays a disjunct, without the Empty
C25_Witness ==
  /\ op = "simplify"
  /\ a.k = "Constructor"
  /\ ~NormalForm(a)
  /\ res.k = "Constructor"
  /\ HasDisjunct(res)
  /\ NormalForm(res)

\* the number of payload elements of a tuple type or of an enum case
arity(tp, head) ==
  IF isTuple(tp) THEN Len(getElements(tp))
  ELSE LET elts == getAllElements(tp)
           idx == {i \in 1..Len(elts) : elts[i].name = head}
       IN IF idx = {} THEN 0 ELSE Len(constElemSpaces(elts[CHOOSE i \in idx : TRUE].arg))

RECURSIVE ArityOK(_)
\* every Constructor in s has no children or as many as its arity
ArityOK(s) ==
  /\ s.k = "Constructor" => Len(s.sp) = 0 \/ Len(s.sp) = arity(s.ty, s.head)
  /\ \A i \in 1..Len(s.sp) : ArityOK(s.sp[i])

\* C26: every Constructor of a check (decomposed, projected from a case
\* pattern, or rebuilt by minus and simplify into the residual and its
\* flattened rows) has zero children or exactly as many as its arity.
C26_ConstructorArity ==
  op = "check"
    => /\ \A t \in AllTypes :
            canDecompose(t) => \A i \in 1..Len(decompose(t)) : ArityOK(decompose(t)[i])
       /\ ~limited
            => \A i \in 1..Len(projections(cases)) : ArityOK(projections(cases)[i])
       /\ ArityOK(res)
       /\ \A n \in 1..Len(diag.flats) : ArityOK(diag.flats[n])

\* C27: for a and b over one type, a.isSubspace(b) is true exactly when
\* a.minus(b).simplify() is Empty.
C27_SubspaceIffEmptyDifference ==
  op = "minus"
    => \A r \in isSubspace(a, b) : (r = "T") <=> isEmpty(simplify(res))

\* C28: every value of the space projected from an unguarded case pattern
\* is a value the pattern matches.
C28_ProjectionNoOverApprox ==
  (op = "check" /\ ~limited)
    => \A i \in 1..Len(unguarded(cases)) :
         \A v \in Values(ty) :
           Member(v, projections(cases)[i]) => Matches(v, unguarded(cases)[i].pattern)

\* the orders of n cases
CaseOrders(n) == {p \in [1..n -> 1..n] : \A i, j \in 1..n : p[i] = p[j] => i = j}

\* the case list cs in the order p
permute(cs, p) == [i \in 1..Len(cs) |-> cs[p[i]]]

\* every case is unguarded and none is a default clause
PlainCases == \A i \in 1..Len(cases) : ~cases[i].guard /\ ~cases[i].isDefault

\* C29: for unguarded, non-default cases, every order of the cases leaves
\* the same set of values in the simplified residual, and the same verdict
\* on whether the switch is exhaustive.
C29_CaseOrderIndependence ==
  (op = "check" /\ ~limited /\ PlainCases)
    => \A p \in CaseOrders(Len(cases)) :
         \A u \in uncoveredSpace(ty, permute(cases, p)) :
           /\ Denotes(u, ty) = Denotes(res, ty)
           /\ isEmpty(u) <=> isEmpty(res)

\* two different cases that each remove values, with values left over
C29_Witness ==
  /\ op = "check"
  /\ ~limited
  /\ PlainCases
  /\ Len(cases) = 2
  /\ cases[1] # cases[2]
  /\ ~isEmpty(res)
  /\ \A u \in uncoveredSpace(ty, <<cases[1]>>) : Denotes(u, ty) # Denotes(res, ty)
  /\ \A u \in uncoveredSpace(ty, <<cases[2]>>) : Denotes(u, ty) # Denotes(res, ty)
  /\ res \in uncoveredSpace(ty, cases)

\* C30: when a.intersect(b).simplify() is Empty, a.minus(b).simplify()
\* equals a.simplify(); the two are compared by the values they denote,
\* which equal spaces share.
C30_DisjointMinus ==
  op = "minus"
    => (isEmpty(simplify(intersect(a, b)))
          => Denotes(simplify(res), ty) = Denotes(simplify(a), ty))

====
